---- MODULE Spec2Model ----
(***************************************************************************)
(* Model of main.py: the scan loop (main_loop) with its buy phase, its     *)
(* sell phase, the in-memory alert_counters, the Alert_Log sheet and the   *)
(* two notification channels.                                              *)
(*                                                                         *)
(* Encoding of sheet cells and prices: a numeric cell or price is a        *)
(* natural number; Blank is the empty cell ''; None is Python's None.      *)
(* Strings are TLA+ strings, "" being the empty / missing string.          *)
(* An alert key is the tuple of the fields the f-string concatenates.      *)
(***************************************************************************)
EXTENDS Integers, Sequences, FiniteSets, TLC

\* ---------------------------------------------------------------- constants

\* main.py:16
MAX_ALERTS_PER_TRIGGER == 5

\* out_q.put((symbol, None)), main.py:58 and :61; prices.get(stock) of a
\* symbol that was not fetched, main.py:143 and :189
None == -1

\* an empty cell of a sheet, which get_all_records returns as ''
Blank == -1

\* ------------------------------------------------------------------- bounds

\* live prices are drawn from 1..MaxPrice
MaxPrice == 3

\* the clock runs over the days 1..MaxDay
MaxDay == 2

\* days of one calendar month of the model's calendar
DaysPerMonth == 2

\* process restarts (alert_counters is lost, the Alert_Log sheet is kept)
MaxRestarts == 1

PriceVals == {None} \cup (1..MaxPrice)

\* --------------------------------------------------- the spreadsheet's rows

WRow(s, a) == [Stock |-> s, ATH |-> a]
URow(n, t, e) == [Name |-> n, telegram_id |-> t, email |-> e]
HRow(s, b, s10, s20, n) ==
    [Stock |-> s, BuyPrice |-> b, SMA_10M |-> s10, SMA_20M |-> s20, Name |-> n]

\* The contents of the workbook "Monthly ATH Stocks": the watchlist (sheet1),
\* the UserDirectory sheet and the Active Holdings sheet.  A run starts from
\* one of these workbooks.  The sheets are edited by hand: nothing keeps a
\* symbol from standing in two rows of the watchlist.
Workbooks ==
    { [ath    |-> <<WRow("AAA", 1), WRow("AAA", 1)>>,
       users  |-> <<URow("u1", "t1", "e1")>>,
       active |-> << >>],
      [ath    |-> <<WRow("AAA", 1)>>,
       users  |-> <<URow("u1", "t1", "e1"), URow("u2", "", "e2"),
                    URow("u3", "", "")>>,
       active |-> << >>],
      [ath    |-> <<WRow("BBB", 9), WRow("AAA", 2)>>,
       users  |-> <<URow("u1", "t1", "e1")>>,
       active |-> << >>],
      [ath    |-> <<WRow("", 1), WRow("BBB", 0), WRow("AAA", Blank)>>,
       users  |-> <<URow("u1", "t1", "e1")>>,
       active |-> <<HRow("AAA", 1, 3, 0, "u1")>>],
      [ath    |-> << >>,
       users  |-> <<URow("u1", "t1", "e1")>>,
       active |-> <<HRow("BBB", Blank, 3, 3, "u1"), HRow("", 1, 3, 3, "u1"),
                    HRow("AAA", 1, 0, 3, "u1"), HRow("BBB", 1, 3, Blank, "u2")>>] }

\* A watchlist that names one symbol in two rows with two reference values
StaleWorkbooks ==
    { [ath    |-> <<WRow("AAA", 1), WRow("AAA", 2)>>,
       users  |-> <<URow("u1", "t1", "e1")>>,
       active |-> <<HRow("", 1, 3, 3, "u1")>>] }

\* ------------------------------------------------------------------- state

VARIABLES
    pc,               \* position of main_loop
    i,                \* index of the row the running for loop is at
    j,                \* index of the user the inner for loop is at (0: row head)
    workbook,         \* the spreadsheet's three data sheets
    alert_log_sheet,  \* the Alert_Log sheet, append-only
    clock,            \* the calendar day datetime.now() returns
    alert_counters,   \* the module-level dict
    ath_data, user_map, active_data, alert_log_data,   \* what load_sheets returned
    now,              \* the day read at main.py:134
    prices,           \* get_prices(stock_symbols)
    ah_prices,        \* get_prices(ah_symbols)
    sent,             \* per alert key: channel sends attempted by this process
    lastEval,         \* what the last evaluation of a row did
    raisedIn,         \* the phase of this cycle an exception was raised in
    ran,              \* the phases this cycle has started
    restarts,
    spent,            \* sell keys an earlier process of this run took to the cap
    g_pc,             \* position of the get_prices call being followed
    symbols,          \* its argument
    threads,          \* per started thread: how far fetch_price has got
    out_q,            \* the queue.Queue the threads put to
    result,           \* the dict get_prices builds
    t_idx             \* index the running loop of get_prices is at

vars == <<pc, i, j, workbook, alert_log_sheet, clock, alert_counters, ath_data,
          user_map, active_data, alert_log_data, now, prices, ah_prices, sent,
          lastEval, raisedIn, ran, restarts, spent, g_pc, symbols, threads,
          out_q, result, t_idx>>

\* the state of a get_prices call
fvars == <<g_pc, symbols, threads, out_q, result, t_idx>>

\* ------------------------------------------------------- helper operators

\* dict.get(key, default)
Get(d, k, default) == IF k \in DOMAIN d THEN d[k] ELSE default

\* d[k] = v
Put(d, k, v) == [x \in DOMAIN d \cup {k} |-> IF x = k THEN v ELSE d[x]]

Range(s) == {s[n] : n \in 1..Len(s)}

\* now.strftime("%Y-%m"): the month of a day
YearMonth(d) == (d + DaysPerMonth - 1) \div DaysPerMonth

\* Python truthiness of a cell: '' and 0 are falsy
Truthy(c) == c # Blank /\ c # 0

\* float(c) succeeds
Parses(c) == c # Blank


\* user_map[user_name] for a name of the directory (keys keep sheet order)
UserInfo(um, name) ==
    IF \E n \in 1..Len(um) : um[n].Name = name
    THEN LET n == CHOOSE n \in 1..Len(um) : um[n].Name = name
         IN  [telegram_id |-> um[n].telegram_id, email |-> um[n].email]
    ELSE [telegram_id |-> "", email |-> ""]

\* the number of Alert_Log rows of a (user, stock, yearMonth)
LogCount(log, user, stock, ym) ==
    Cardinality({n \in 1..Len(log) :
        log[n].User = user /\ log[n].Stock = stock /\ log[n].YearMonth = ym})

\* ------------------------------------------------ the functions of main.py

buy_alert_sent_this_month(log_data, user, stock, year_month) ==
    \E n \in 1..Len(log_data) :
        /\ log_data[n].User = user
        /\ log_data[n].Stock = stock
        /\ log_data[n].YearMonth = year_month
        /\ log_data[n].AlertType = "buy"

\* the row log_buy_alert_month appends (its timestamp is never read back)
log_buy_alert_month(sheet, user, stock, year_month) ==
    Append(sheet, [User |-> user, Stock |-> stock, YearMonth |-> year_month,
                   AlertType |-> "buy"])

NotSent == [result |-> "none", raised |-> FALSE]

\* send_telegram_alert gone wrong: the transport error is not caught
send_telegram_alert_uncaught(chat_id, fails) ==
    [result |-> IF fails THEN "failed" ELSE "ok", raised |-> fails]

\* requests.post inside try/except Exception: a transport error is printed
send_telegram_alert(chat_id, fails) ==
    [result |-> IF fails THEN "failed" ELSE "ok", raised |-> FALSE]

\* yag.send inside try/except Exception
send_email_alert(email, fails) ==
    [result |-> IF fails THEN "failed" ELSE "ok", raised |-> FALSE]

\* main.py:162-166 and :220-224: the two channel sends of one alert, in
\* order; an exception leaving the first would skip the second
Dispatch(chat_id, email, imFails, mailFails) ==
    LET tg == IF chat_id # "" THEN send_telegram_alert(chat_id, imFails)
              ELSE NotSent
        em == IF tg.raised THEN NotSent
              ELSE IF email # "" THEN send_email_alert(email, mailFails)
              ELSE NotSent
    IN  [im |-> tg.result, mail |-> em.result, raised |-> tg.raised \/ em.raised]

\* ShouldSend gone wrong: an off-by-one cap
ShouldSendOffByOne(prev_count) == prev_count <= MAX_ALERTS_PER_TRIGGER

\* main.py:160 and :218
ShouldSend(prev_count) == prev_count < MAX_ALERTS_PER_TRIGGER

\* BuyTrigger gone wrong: a non-strict comparison
BuyTriggerNonStrict(live_float, ath_float) == live_float >= ath_float

\* main.py:157
BuyTrigger(live_float, ath_float) == live_float > ath_float

NoSignal == [signal |-> FALSE, reason |-> << >>]

\* SellVerdict gone wrong: the doubling test excludes exactly double
SellVerdictDoubleOff(live_price, buy_price, sma_10m, sma_20m) ==
    IF live_price <= buy_price * 2
    THEN IF live_price < sma_20m /\ sma_20m > 0
         THEN [signal |-> TRUE, reason |-> <<"20M", sma_20m>>]
         ELSE NoSignal
    ELSE IF live_price < sma_10m /\ sma_10m > 0
         THEN [signal |-> TRUE, reason |-> <<"10M", sma_10m>>]
         ELSE NoSignal

\* main.py:205-214; the reason text names the average and its value
SellVerdict(live_price, buy_price, sma_10m, sma_20m) ==
    IF live_price < buy_price * 2
    THEN IF live_price < sma_20m /\ sma_20m > 0
         THEN [signal |-> TRUE, reason |-> <<"20M", sma_20m>>]
         ELSE NoSignal
    ELSE IF live_price < sma_10m /\ sma_10m > 0
         THEN [signal |-> TRUE, reason |-> <<"10M", sma_10m>>]
         ELSE NoSignal

\* main.py:158 and :216
BuyKey(user_name, stock, ath_float, day) == <<"buy", user_name, stock, ath_float, day>>
\* the increment gone wrong: a step of two
NextCountByTwo(prev_count) == prev_count + 2

\* main.py:167, 225: alert_counters[alert_key] = prev_count + 1
NextCount(prev_count) == prev_count + 1

\* the ordinal gone wrong: counted from zero
OrdinalFromZero(prev_count) == prev_count

\* main.py:161, 219: the x{prev_count+1} of the message text
Ordinal(prev_count) == prev_count + 1

\* the increment gone wrong: made only when a channel delivered
CountsIfDelivered(d) == ~d.raised /\ (d.im = "ok" \/ d.mail = "ok")

\* main.py:162-167, 220-225: the increment follows the two sends with no
\* condition on what they did; only an exception leaving them would skip it
Counts(d) == ~d.raised

\* the sell phase gone wrong: it consults the Alert_Log as the buy phase does
SellSuppressedByLog(log_data, user_name, stock, year_month) ==
    buy_alert_sent_this_month(log_data, user_name, stock, year_month)

\* main.py:205-218: between the sell signal and the cap test nothing is
\* looked up in the Alert_Log
SellSuppressed(log_data, user_name, stock, year_month) == FALSE

\* the sell key gone wrong: dated like the buy key
SellKeyPerDay(user_name, stock, sell_reason) ==
    <<"sell", user_name, stock, sell_reason, now>>

SellKey(user_name, stock, sell_reason) == <<"sell", user_name, stock, sell_reason>>

\* Handler gone wrong: each phase in a try block of its own
HandlerPerPhase(phase) == IF phase = "buy" THEN "sellFetch" ELSE "except"

\* the one try block of main.py:130-233: an exception raised in any phase
\* leaves the cycle for the except clause
Handler(phase) == "except"

\* AfterExcept gone wrong: the except clause re-raises and the loop ends
AfterExceptExit == "exit"

\* main.py:232-238: the except clause prints and falls through to the sleep
AfterExcept == "sleep"

\* Continue gone wrong: break instead of continue
ContinueAsBreak(n, rows) == Len(rows) + 1

\* `continue` in a for loop over rows: on to the next row
Continue(n, rows) == n + 1


\* ---------------------------------------------------------- initial state

NoEval ==
    [kind |-> "none", user |-> "", stock |-> "", ref |-> 0, live |-> 0,
     sma10 |-> 0, sma20 |-> 0, outcome |-> "none", reason |-> << >>,
     prev |-> 0, count |-> 0, ordinal |-> 0, im |-> "none", mail |-> "none",
     appended |-> FALSE, inLog |-> FALSE, chat_id |-> "", email |-> ""]

NoSends == [im |-> 0, mail |-> 0]

\* no get_prices call is being followed
FetchIdle ==
    /\ g_pc = "idle"
    /\ symbols = << >>
    /\ threads = << >>
    /\ out_q = << >>
    /\ result = << >>
    /\ t_idx = 0

\* a process starts over one of `books`, the Alert_Log sheet holding `log`
InitWith(books, log) ==
    /\ FetchIdle
    /\ spent = {}
    /\ pc = "start"
    /\ i = 0
    /\ j = 0
    /\ workbook \in books
    /\ alert_log_sheet = log
    /\ clock = 1
    /\ alert_counters = << >>
    /\ ath_data = << >>
    /\ user_map = << >>
    /\ active_data = << >>
    /\ alert_log_data = << >>
    /\ now = 1
    /\ prices = << >>
    /\ ah_prices = << >>
    /\ sent = << >>
    /\ lastEval = NoEval
    /\ raisedIn = "none"
    /\ ran = {}
    /\ restarts = 0

\* the first process over a workbook: the Alert_Log sheet is empty
InitFrom(books) == InitWith(books, << >>)

Init == InitFrom(Workbooks)

\* an exception raised in `phase`: control leaves for the handler
Raise(phase) ==
    /\ pc' = Handler(phase)
    /\ raisedIn' = phase
    /\ i' = IF Handler(phase) = "except" THEN 0 ELSE i
    /\ j' = 0

\* the sends a dispatch adds to the tally of a key
Tally(key, d) ==
    LET old == Get(sent, key, NoSends)
    IN  Put(sent, key, [im   |-> old.im + (IF d.im = "none" THEN 0 ELSE 1),
                        mail |-> old.mail + (IF d.mail = "none" THEN 0 ELSE 1)])

\* ------------------------------------------------------ main_loop, by step

\* main.py:131, load_sheets: the four sheets are read (or the read raises)
Load(fails) ==
    /\ pc = "start"
    /\ IF fails
       THEN /\ Raise("load")
            /\ UNCHANGED <<ath_data, user_map, active_data, alert_log_data>>
       ELSE /\ ath_data' = workbook.ath
            /\ user_map' = workbook.users
            /\ active_data' = workbook.active
            /\ alert_log_data' = alert_log_sheet
            /\ pc' = "buyFetch"
            /\ UNCHANGED <<i, j, raisedIn>>
    /\ UNCHANGED <<spent, fvars>>
    /\ UNCHANGED <<workbook, alert_log_sheet, clock, alert_counters, now, prices,
                   ah_prices, sent, lastEval, ran, restarts>>

\* main.py:134-138: now is read, the prices of the watchlist's symbols are
\* fetched: one entry per symbol, a price or None
BuyFetch(fails) ==
    /\ pc = "buyFetch"
    /\ ran' = ran \cup {"buy"}
    /\ now' = clock
    /\ IF fails
       THEN /\ Raise("buy")
            /\ UNCHANGED prices
       ELSE /\ LET stock_symbols ==
                       {ath_data[n].Stock : n \in {m \in 1..Len(ath_data) :
                                                      ath_data[m].Stock # ""}}
               IN  prices' \in [stock_symbols -> PriceVals]
            /\ pc' = "buy"
            /\ i' = 1
            /\ j' = 0
            /\ UNCHANGED raisedIn
    /\ UNCHANGED <<spent, fvars>>
    /\ UNCHANGED <<workbook, alert_log_sheet, clock, alert_counters, ath_data,
                   user_map, active_data, alert_log_data, ah_prices, sent,
                   lastEval, restarts>>

\* main.py:140-150: the head of the loop over the watchlist rows
BuyRow ==
    /\ pc = "buy" /\ j = 0 /\ i <= Len(ath_data)
    /\ LET row == ath_data[i]
           stock == row.Stock
           ath == row.ATH
           live_price == Get(prices, stock, None)
           skip == stock = "" \/ ~Truthy(ath) \/ live_price = None \/ ~Parses(ath)
       IN  /\ lastEval' =
                 IF skip
                 THEN [NoEval EXCEPT !.kind = "buy", !.stock = stock,
                          !.ref = ath, !.live = live_price, !.outcome = "skipped"]
                 ELSE lastEval
           /\ IF skip
              THEN i' = Continue(i, ath_data) /\ j' = 0
              ELSE IF Len(user_map) = 0
                   THEN i' = i + 1 /\ j' = 0
                   ELSE i' = i /\ j' = 1
    /\ UNCHANGED <<spent, fvars>>
    /\ UNCHANGED <<pc, workbook, alert_log_sheet, clock, alert_counters, ath_data,
                   user_map, active_data, alert_log_data, now, prices, ah_prices,
                   sent, raisedIn, ran, restarts>>

\* main.py:151-170: one user of the directory against one watchlist row
BuyEval(imFails, mailFails, appendFails) ==
    /\ pc = "buy" /\ j >= 1
    /\ LET row == ath_data[i]
           stock == row.Stock
           ath_float == row.ATH
           live_float == prices[stock]
           user_name == user_map[j].Name
           chat_id == user_map[j].telegram_id
           email == user_map[j].email
           year_month == YearMonth(now)
           alert_key == BuyKey(user_name, stock, ath_float, now)
           prev_count == Get(alert_counters, alert_key, 0)
           suppressed == buy_alert_sent_this_month(alert_log_data, user_name,
                                                   stock, year_month)
           trigger == ~suppressed /\ BuyTrigger(live_float, ath_float)
           sends == trigger /\ ShouldSend(prev_count)
           d == IF sends THEN Dispatch(chat_id, email, imFails, mailFails)
                ELSE [im |-> "none", mail |-> "none", raised |-> FALSE]
           counted == sends /\ Counts(d)
           count == IF counted THEN NextCount(prev_count) ELSE prev_count
           logs == trigger /\ ~d.raised /\ count = MAX_ALERTS_PER_TRIGGER
           raises == d.raised \/ (logs /\ appendFails)
           ev == [NoEval EXCEPT
                    !.kind = "buy", !.user = user_name, !.stock = stock,
                    !.ref = ath_float, !.live = live_float,
                    !.outcome = IF suppressed THEN "suppressed"
                                ELSE IF ~trigger THEN "quiet"
                                ELSE IF d.raised THEN "raised"
                                ELSE IF sends THEN "sent" ELSE "capped",
                    !.prev = prev_count, !.count = count,
                    !.ordinal = IF sends THEN Ordinal(prev_count) ELSE 0,
                    !.im = d.im, !.mail = d.mail,
                    !.appended = logs /\ ~appendFails,
                    !.inLog = LogCount(alert_log_sheet, user_name, stock,
                                       year_month) > 0,
                    !.chat_id = chat_id, !.email = email]
       IN  /\ lastEval' = ev
           /\ sent' = IF sends THEN Tally(alert_key, d) ELSE sent
           /\ alert_counters' = IF counted
                                THEN Put(alert_counters, alert_key, count)
                                ELSE alert_counters
           /\ alert_log_sheet' =
                 IF logs /\ ~appendFails
                 THEN log_buy_alert_month(alert_log_sheet, user_name, stock,
                                          year_month)
                 ELSE alert_log_sheet
           /\ IF raises
              THEN Raise("buy")
              ELSE /\ IF j < Len(user_map)
                      THEN i' = i /\ j' = j + 1
                      ELSE i' = i + 1 /\ j' = 0
                   /\ UNCHANGED <<pc, raisedIn>>
    /\ UNCHANGED <<spent, fvars>>
    /\ UNCHANGED <<workbook, clock, ath_data, user_map, active_data,
                   alert_log_data, now, prices, ah_prices, ran, restarts>>

\* main.py:172-175: the watchlist is exhausted, the sell phase follows
BuyDone ==
    /\ pc = "buy" /\ j = 0 /\ i > Len(ath_data)
    /\ pc' = "sellFetch"
    /\ i' = 0
    /\ prices' = << >>
    /\ UNCHANGED <<spent, fvars>>
    /\ UNCHANGED <<j, workbook, alert_log_sheet, clock, alert_counters, ath_data,
                   user_map, active_data, alert_log_data, now, ah_prices, sent,
                   lastEval, raisedIn, ran, restarts>>


\* main.py:176-179: the prices of the held symbols are fetched
SellFetch(fails) ==
    /\ pc = "sellFetch"
    /\ ran' = ran \cup {"sell"}
    /\ IF fails
       THEN /\ Raise("sell")
            /\ UNCHANGED ah_prices
       ELSE /\ LET ah_symbols ==
                       {active_data[n].Stock : n \in {m \in 1..Len(active_data) :
                                                         active_data[m].Stock # ""}}
               IN  ah_prices' \in [ah_symbols -> PriceVals]
            /\ pc' = "sell"
            /\ i' = 1
            /\ j' = 0
            /\ UNCHANGED raisedIn
    /\ UNCHANGED <<spent, fvars>>
    /\ UNCHANGED <<workbook, alert_log_sheet, clock, alert_counters, ath_data,
                   user_map, active_data, alert_log_data, now, prices, sent,
                   lastEval, restarts>>

\* main.py:180-228: one holding
SellEval(imFails, mailFails) ==
    /\ pc = "sell" /\ i <= Len(active_data)
    /\ LET row == active_data[i]
           stock == row.Stock
           live_price == Get(ah_prices, stock, None)
           skip == stock = "" \/ ~Parses(row.BuyPrice) \/ live_price = None
           buy_price == row.BuyPrice
           sma_10m == IF Truthy(row.SMA_10M) THEN row.SMA_10M ELSE 0
           sma_20m == IF Truthy(row.SMA_20M) THEN row.SMA_20M ELSE 0
           user_name == row.Name
           chat_id == UserInfo(user_map, user_name).telegram_id
           email == UserInfo(user_map, user_name).email
           v == SellVerdict(live_price, buy_price, sma_10m, sma_20m)
           alert_key == SellKey(user_name, stock, v.reason)
           prev_count == Get(alert_counters, alert_key, 0)
           suppressed == SellSuppressed(alert_log_data, user_name, stock,
                                        YearMonth(now))
           sends == v.signal /\ ~suppressed /\ ShouldSend(prev_count)
           d == IF sends THEN Dispatch(chat_id, email, imFails, mailFails)
                ELSE [im |-> "none", mail |-> "none", raised |-> FALSE]
           counted == sends /\ Counts(d)
           count == IF counted THEN NextCount(prev_count) ELSE prev_count
           ev == [NoEval EXCEPT
                    !.kind = "sell", !.user = user_name, !.stock = stock,
                    !.ref = buy_price, !.live = live_price,
                    !.sma10 = sma_10m, !.sma20 = sma_20m,
                    !.outcome = IF ~v.signal THEN "quiet"
                                ELSE IF suppressed THEN "suppressed"
                                ELSE IF d.raised THEN "raised"
                                ELSE IF sends THEN "sent" ELSE "capped",
                    !.reason = v.reason,
                    !.prev = prev_count, !.count = count,
                    !.ordinal = IF sends THEN Ordinal(prev_count) ELSE 0,
                    !.im = d.im, !.mail = d.mail,
                    !.inLog = LogCount(alert_log_sheet, user_name, stock,
                                       YearMonth(now)) > 0,
                    !.chat_id = chat_id, !.email = email]
       IN  IF skip
           THEN /\ lastEval' = [NoEval EXCEPT !.kind = "sell", !.stock = stock,
                                  !.ref = row.BuyPrice, !.live = live_price,
                                  !.outcome = "skipped"]
                /\ i' = Continue(i, active_data)
                /\ UNCHANGED <<pc, j, sent, alert_counters, raisedIn>>
           ELSE /\ lastEval' = ev
                /\ sent' = IF sends THEN Tally(alert_key, d) ELSE sent
                /\ alert_counters' = IF counted
                                     THEN Put(alert_counters, alert_key, count)
                                     ELSE alert_counters
                /\ IF d.raised
                   THEN Raise("sell")
                   ELSE i' = i + 1 /\ UNCHANGED <<pc, j, raisedIn>>
    /\ UNCHANGED <<spent, fvars>>
    /\ UNCHANGED <<workbook, alert_log_sheet, clock, ath_data, user_map,
                   active_data, alert_log_data, now, prices, ah_prices, ran,
                   restarts>>

\* main.py:230, 235-237: the holdings are exhausted, the try block is left
SellDone ==
    /\ pc = "sell" /\ i > Len(active_data)
    /\ pc' = "sleep"
    /\ i' = 0
    /\ UNCHANGED <<spent, fvars>>
    /\ UNCHANGED <<j, workbook, alert_log_sheet, clock, alert_counters, ath_data,
                   user_map, active_data, alert_log_data, now, prices, ah_prices,
                   sent, lastEval, raisedIn, ran, restarts>>

\* main.py:232-233: the except clause of the cycle's try block
Except ==
    /\ pc = "except"
    /\ pc' = AfterExcept
    /\ UNCHANGED <<spent, fvars>>
    /\ UNCHANGED <<i, j, workbook, alert_log_sheet, clock, alert_counters,
                   ath_data, user_map, active_data, alert_log_data, now, prices,
                   ah_prices, sent, lastEval, raisedIn, ran, restarts>>

\* main.py:238, 126-129: the sleep ends and the next cycle starts; the
\* locals of the finished cycle are dead
Sleep ==
    /\ pc = "sleep"
    /\ pc' = "start"
    /\ prices' = << >>
    /\ ah_prices' = << >>
    /\ lastEval' = NoEval
    /\ raisedIn' = "none"
    /\ ran' = {}
    /\ UNCHANGED <<spent, fvars>>
    /\ UNCHANGED <<i, j, workbook, alert_log_sheet, clock, alert_counters,
                   ath_data, user_map, active_data, alert_log_data, now, sent,
                   restarts>>

\* ------------------------------------------------------------ environment

\* midnight passes while the loop sleeps
Tick ==
    /\ pc = "sleep"
    /\ clock < MaxDay
    /\ clock' = clock + 1
    /\ UNCHANGED <<spent, fvars>>
    /\ UNCHANGED <<pc, i, j, workbook, alert_log_sheet, alert_counters, ath_data,
                   user_map, active_data, alert_log_data, now, prices, ah_prices,
                   sent, lastEval, raisedIn, ran, restarts>>

\* the process is restarted: module state is rebuilt (main.py:15), the
\* spreadsheet keeps its rows
Restart ==
    /\ pc = "sleep"
    /\ restarts < MaxRestarts
    /\ restarts' = restarts + 1
    /\ pc' = "start"
    /\ i' = 0
    /\ j' = 0
    /\ alert_counters' = << >>
    /\ sent' = << >>
    /\ ath_data' = << >>
    /\ user_map' = << >>
    /\ active_data' = << >>
    /\ alert_log_data' = << >>
    /\ prices' = << >>
    /\ ah_prices' = << >>
    /\ lastEval' = NoEval
    /\ raisedIn' = "none"
    /\ ran' = {}
    /\ spent' = spent \cup {key \in DOMAIN alert_counters :
                                key[1] = "sell"
                                /\ alert_counters[key] = MAX_ALERTS_PER_TRIGGER}
    /\ UNCHANGED fvars
    /\ UNCHANGED <<workbook, alert_log_sheet, clock, now>>

\* ------------------------------------------------------------ specification

Step ==
    \/ \E fails \in BOOLEAN : Load(fails)
    \/ \E fails \in BOOLEAN : BuyFetch(fails)
    \/ BuyRow
    \/ \E imFails, mailFails, appendFails \in BOOLEAN :
           BuyEval(imFails, mailFails, appendFails)
    \/ BuyDone
    \/ \E fails \in BOOLEAN : SellFetch(fails)
    \/ \E imFails, mailFails \in BOOLEAN : SellEval(imFails, mailFails)
    \/ SellDone
    \/ Except
    \/ Sleep

Next == Step \/ Tick \/ Restart

Spec == Init /\ [][Next]_vars

\* the same program over the watchlist with a symbol in two rows
StaleSpec == InitFrom(StaleWorkbooks) /\ [][Next]_vars

\* the workbooks with one user: the watchlist naming AAA twice (no holdings)
\* and the one with a holding
LoopWorkbooks ==
    {w \in Workbooks : Len(w.users) = 1 /\ Len(w.ath) # 0 /\ w.ath[1].Stock # "BBB"}

\* the interpreter keeps running main_loop: a step that can be taken is taken
FairSpec == InitFrom(LoopWorkbooks) /\ [][Next]_vars /\ WF_vars(Step)

\* the same over every workbook
FairSpecAll == Spec /\ WF_vars(Step)


\* a workbook whose one user both watches and holds AAA
HeldWorkbooks ==
    { [ath    |-> <<WRow("AAA", 1)>>,
       users  |-> <<URow("u1", "t1", "e1")>>,
       active |-> <<HRow("AAA", 1, 3, 3, "u1")>>] }

\* the program started with the Alert_Log already holding this month's row
\* for (u1, AAA), left there by an earlier process that reached the cap
LoggedSpec ==
    /\ InitWith(HeldWorkbooks,
                log_buy_alert_month(<< >>, "u1", "AAA", YearMonth(1)))
    /\ [][Next]_vars


\* ------------------------------------------------- get_prices, by thread

\* main.py:136, 176-178: the symbols of the rows that name one, in row order
\* (a symbol two rows name is listed twice)
SymbolsOf(rows) ==
    LET named == SelectSeq(rows, LAMBDA row : row.Stock # "")
    IN  [n \in 1..Len(named) |-> named[n].Stock]

\* t.join() gone wrong: a join that does not wait for its thread
JoinNoWait(thread) == TRUE

\* t.join() gone wrong: a join that passes once the lookup is over, the
\* thread's put still to come
JoinBeforePut(thread) == thread.st # "running"

\* main.py:70-71, t.join() with no timeout: passes once the thread has ended
Joined(thread) == thread.st = "done"

\* the call get_prices(stock_symbols) or get_prices(ah_symbols) is entered
\* with the sheets of some workbook loaded
FetchInit ==
    \E w \in Workbooks, phase \in {"buyFetch", "sellFetch"} :
        /\ pc = phase
        /\ i = 0
        /\ j = 0
        /\ workbook = w
        /\ alert_log_sheet = << >>
        /\ clock = 1
        /\ alert_counters = << >>
        /\ ath_data = w.ath
        /\ user_map = w.users
        /\ active_data = w.active
        /\ alert_log_data = << >>
        /\ now = 1
        /\ prices = << >>
        /\ ah_prices = << >>
        /\ sent = << >>
        /\ lastEval = NoEval
        /\ raisedIn = "none"
        /\ ran = IF phase = "buyFetch" THEN {"buy"} ELSE {"buy", "sell"}
        /\ restarts = 0
        /\ spent = {}
        /\ g_pc = "spawn"
        /\ symbols = SymbolsOf(IF phase = "buyFetch" THEN w.ath ELSE w.active)
        /\ threads = << >>
        /\ out_q = << >>
        /\ result = << >>
        /\ t_idx = 1

\* what get_prices leaves alone while it runs
loopVars == <<pc, i, j, workbook, alert_log_sheet, clock, alert_counters,
              ath_data, user_map, active_data, alert_log_data, now, prices,
              ah_prices, sent, lastEval, raisedIn, ran, restarts, spent>>

\* main.py:66-69: a thread is created for the next symbol and started
Spawn ==
    /\ g_pc = "spawn"
    /\ t_idx <= Len(symbols)
    /\ threads' = Append(threads, [symbol |-> symbols[t_idx], st |-> "running",
                                   last_price |-> None])
    /\ t_idx' = t_idx + 1
    /\ UNCHANGED <<g_pc, symbols, out_q, result>>
    /\ UNCHANGED loopVars

\* main.py:66, 70: the for loop over the symbols ends, the one over the
\* threads starts
SpawnDone ==
    /\ g_pc = "spawn"
    /\ t_idx > Len(symbols)
    /\ g_pc' = "join"
    /\ t_idx' = 1
    /\ UNCHANGED <<symbols, threads, out_q, result>>
    /\ UNCHANGED loopVars

\* main.py:51-55, 59-60, fetch_price in thread t: the lookup returns a
\* closing price, or returns an empty history or raises (None either way)
Lookup(t, price) ==
    /\ t \in 1..Len(threads)
    /\ threads[t].st = "running"
    /\ threads' = [threads EXCEPT ![t].st = "fetched", ![t].last_price = price]
    /\ UNCHANGED <<g_pc, symbols, out_q, result, t_idx>>
    /\ UNCHANGED loopVars

\* main.py:56, 58, 61, fetch_price in thread t: its one put, and its end
PutResult(t) ==
    /\ t \in 1..Len(threads)
    /\ threads[t].st = "fetched"
    /\ out_q' = Append(out_q, <<threads[t].symbol, threads[t].last_price>>)
    /\ threads' = [threads EXCEPT ![t].st = "done"]
    /\ UNCHANGED <<g_pc, symbols, result, t_idx>>
    /\ UNCHANGED loopVars

\* main.py:70-71: the next thread is joined
Join ==
    /\ g_pc = "join"
    /\ t_idx <= Len(threads)
    /\ Joined(threads[t_idx])
    /\ t_idx' = t_idx + 1
    /\ UNCHANGED <<g_pc, symbols, threads, out_q, result>>
    /\ UNCHANGED loopVars

\* main.py:70, 72: every thread has been joined
JoinDone ==
    /\ g_pc = "join"
    /\ t_idx > Len(threads)
    /\ g_pc' = "drain"
    /\ UNCHANGED <<symbols, threads, out_q, result, t_idx>>
    /\ UNCHANGED loopVars

\* main.py:73-75: one pair is taken off the queue and stored under its
\* symbol, over whatever was stored there
Drain ==
    /\ g_pc = "drain"
    /\ out_q # << >>
    /\ result' = Put(result, Head(out_q)[1], Head(out_q)[2])
    /\ out_q' = Tail(out_q)
    /\ UNCHANGED <<g_pc, symbols, threads, t_idx>>
    /\ UNCHANGED loopVars

\* main.py:73, 76 and 137-140, 179-180: the queue is empty, get_prices
\* returns the dict and the caller starts on its rows
Return ==
    /\ g_pc = "drain"
    /\ out_q = << >>
    /\ g_pc' = "return"
    /\ IF pc = "buyFetch"
       THEN /\ prices' = result
            /\ pc' = "buy"
            /\ UNCHANGED ah_prices
       ELSE /\ ah_prices' = result
            /\ pc' = "sell"
            /\ UNCHANGED prices
    /\ i' = 1
    /\ UNCHANGED <<j, workbook, alert_log_sheet, clock, alert_counters,
                   ath_data, user_map, active_data, alert_log_data, now, sent,
                   lastEval, raisedIn, ran, restarts, spent>>
    /\ UNCHANGED <<symbols, threads, out_q, result, t_idx>>

\* the thread that called get_prices
Caller == Spawn \/ SpawnDone \/ Join \/ JoinDone \/ Drain \/ Return

\* the indices a started thread can have
ThreadIds ==
    UNION {(1..Len(w.ath)) \cup (1..Len(w.active)) : w \in Workbooks}

FetchNext ==
    \/ Caller
    \/ \E t \in ThreadIds, price \in PriceVals : Lookup(t, price)
    \/ \E t \in ThreadIds : PutResult(t)

FetchSpec == FetchInit /\ [][FetchNext]_vars

\* the scheduler is fair to the calling thread and to every lookup thread,
\* and every lookup returns or raises
FairFetchSpec ==
    /\ FetchSpec
    /\ WF_vars(Caller)
    /\ \A t \in ThreadIds :
           /\ WF_vars(\E price \in PriceVals : Lookup(t, price))
           /\ WF_vars(PutResult(t))


\* ------------------------------------------------------------------ claims

\* what the last evaluation was about
EvalKey ==
    IF lastEval.kind = "buy"
    THEN BuyKey(lastEval.user, lastEval.stock, lastEval.ref, now)
    ELSE SellKey(lastEval.user, lastEval.stock, lastEval.reason)

Evaluated(kind) == lastEval.kind = kind /\ lastEval.outcome # "skipped"

NothingSent == lastEval.im = "none" /\ lastEval.mail = "none"

\* C1: a process sends at most 5 notifications per channel for one buy
\* AlertKey, and an evaluation that finds the key's counter at 5 sends
\* nothing on either channel, whatever the price.
C1_BuyCapOfFive ==
    /\ \A k \in DOMAIN sent :
           k[1] = "buy" =>
               /\ sent[k].im <= MAX_ALERTS_PER_TRIGGER
               /\ sent[k].mail <= MAX_ALERTS_PER_TRIGGER
    /\ \A k \in DOMAIN alert_counters :
           k[1] = "buy" => alert_counters[k] <= MAX_ALERTS_PER_TRIGGER
    /\ (Evaluated("buy") /\ lastEval.prev >= MAX_ALERTS_PER_TRIGGER) =>
           /\ NothingSent
           /\ lastEval.ordinal = 0
           /\ Get(alert_counters, EvalKey, 0) = lastEval.prev

\* C1 witness: a buy evaluation with the price above the reference found
\* the counter at 5
C1_Witness ==
    /\ Evaluated("buy")
    /\ lastEval.outcome = "capped"
    /\ lastEval.live > lastEval.ref
    /\ lastEval.prev = MAX_ALERTS_PER_TRIGGER

\* C2 (as claimed): the Alert_Log holds at most one row per (user, stock,
\* yearMonth), and a row is appended only by the evaluation that takes the
\* counter from 4 to 5.
C2_ExactlyOneRecord ==
    /\ \A n \in 1..Len(alert_log_sheet) :
           LogCount(alert_log_sheet, alert_log_sheet[n].User,
                    alert_log_sheet[n].Stock, alert_log_sheet[n].YearMonth) = 1
    /\ (lastEval.kind = "buy" /\ lastEval.appended) =>
           /\ lastEval.prev = MAX_ALERTS_PER_TRIGGER - 1
           /\ lastEval.count = MAX_ALERTS_PER_TRIGGER

\* C3 (as claimed): a buy evaluation made while the Alert_Log holds a row
\* for its (user, stock, yearMonth) is skipped: nothing is sent, the counter
\* is left alone and no row is appended.
C3_RecordBlocksEvaluation ==
    (Evaluated("buy") /\ lastEval.inLog) =>
        /\ NothingSent
        /\ lastEval.count = lastEval.prev
        /\ ~lastEval.appended

\* C4 (as claimed): a buy evaluation whose key is already at 5 (its row
\* already logged) is a no-op: nothing sent, counter still 5, no further row.
C4_CappedIsNoOp ==
    (Evaluated("buy") /\ lastEval.prev = MAX_ALERTS_PER_TRIGGER /\ lastEval.inLog) =>
        /\ NothingSent
        /\ lastEval.count = MAX_ALERTS_PER_TRIGGER
        /\ ~lastEval.appended

\* C5: for a pair that passed the row checks, is not suppressed and whose
\* counter is below 5, the alert is dispatched iff live > reference,
\* strictly; a user with a contact then gets a send.  Otherwise nothing is
\* sent, the counter keeps its value and no row is appended.
C5_StrictBuyTrigger ==
    (/\ Evaluated("buy")
     /\ lastEval.outcome # "suppressed"
     /\ lastEval.prev < MAX_ALERTS_PER_TRIGGER) =>
        /\ (lastEval.live > lastEval.ref) <=> (lastEval.outcome = "sent")
        /\ (lastEval.live > lastEval.ref) =>
               /\ lastEval.ordinal = lastEval.prev + 1
               /\ Get(alert_counters, EvalKey, 0) = lastEval.prev + 1
               /\ (lastEval.chat_id # "" <=> lastEval.im # "none")
               /\ (lastEval.email # "" <=> lastEval.mail # "none")
        /\ (lastEval.live <= lastEval.ref) =>
               /\ NothingSent
               /\ Get(alert_counters, EvalKey, 0) = lastEval.prev
               /\ ~lastEval.appended

\* C5 witness: a key that has already alerted is evaluated with the live
\* price equal to the reference
C5_Witness ==
    /\ Evaluated("buy")
    /\ lastEval.outcome = "quiet"
    /\ lastEval.live = lastEval.ref
    /\ lastEval.prev \in 1..(MAX_ALERTS_PER_TRIGGER - 1)

\* C6: the doubling test selects the one average a holding is tested
\* against: below double, the signal is live < SMA_20M with SMA_20M > 0;
\* at double or above, it is live < SMA_10M with SMA_10M > 0.  The other
\* average plays no part, and a zero average never triggers.
C6_SellRegimeSwitch ==
    Evaluated("sell") =>
        LET signal == lastEval.outcome \in {"sent", "capped", "raised"}
        IN  /\ (lastEval.live < 2 * lastEval.ref) =>
                   /\ signal <=> (lastEval.live < lastEval.sma20 /\ lastEval.sma20 > 0)
                   /\ signal => lastEval.reason = <<"20M", lastEval.sma20>>
            /\ (lastEval.live >= 2 * lastEval.ref) =>
                   /\ signal <=> (lastEval.live < lastEval.sma10 /\ lastEval.sma10 > 0)
                   /\ signal => lastEval.reason = <<"10M", lastEval.sma10>>
            /\ ~signal => NothingSent /\ lastEval.reason = << >>

\* C6 witness: a holding at exactly double its buy price, its short-term
\* average unset, its long-term average above the price: no signal
C6_Witness ==
    /\ Evaluated("sell")
    /\ lastEval.live = 2 * lastEval.ref
    /\ lastEval.sma10 = 0
    /\ lastEval.live < lastEval.sma20
    /\ lastEval.outcome = "quiet"

\* C7: an exception caught in a cycle, wherever it was raised, is followed
\* by the sleep and then by the start of a next cycle; the loop never ends.
C7_LoopSurvivesException ==
    /\ [](pc \in {"start", "buyFetch", "buy", "sellFetch", "sell", "except", "sleep"})
    /\ \A phase \in {"load", "buy", "sell"} :
           (pc = "except" /\ raisedIn = phase) ~> (pc = "sleep")
    /\ (pc = "sleep") ~> (pc = "start")

\* C7 witness: the append to the Alert_Log raised after the 5th alert
C7_Witness ==
    /\ pc = "except"
    /\ raisedIn = "buy"
    /\ lastEval.outcome = "sent"
    /\ lastEval.count = MAX_ALERTS_PER_TRIGGER
    /\ ~lastEval.appended

\* C8 (as claimed): a cycle whose buy phase raised still runs its sell phase
C8_SellRunsAfterBuyFailure ==
    (pc = "sleep" /\ raisedIn = "buy") => "sell" \in ran

\* C8 (amended): an exception raised in the buy phase goes to the cycle's
\* one handler; the sell phase of that cycle is not run.
C8_BuyFailureAbandonsCycle ==
    raisedIn = "buy" =>
        /\ pc \in {"except", "sleep"}
        /\ "sell" \notin ran

\* C8 witness: a cycle with holdings to evaluate ends after a buy-phase
\* exception
C8_Witness ==
    /\ pc = "sleep"
    /\ raisedIn = "buy"
    /\ Len(active_data) > 0

\* C9: a row whose symbol has no price is passed over by either evaluator:
\* no exception, nothing sent, counters and Alert_Log untouched, and the
\* loop is at the next row.
BuyRowUnpriced ==
    /\ pc = "buy" /\ j = 0 /\ i <= Len(ath_data)
    /\ ath_data[i].Stock # ""
    /\ Get(prices, ath_data[i].Stock, None) = None

SellRowUnpriced ==
    /\ pc = "sell" /\ i <= Len(active_data)
    /\ active_data[i].Stock # ""
    /\ Get(ah_prices, active_data[i].Stock, None) = None

C9_UnpricedRowSkipped ==
    [][(BuyRowUnpriced \/ SellRowUnpriced) =>
          /\ pc' = pc
          /\ i' = i + 1
          /\ raisedIn' = raisedIn
          /\ alert_counters' = alert_counters
          /\ sent' = sent
          /\ alert_log_sheet' = alert_log_sheet]_vars

\* C9 witness: a watchlist row without a price was passed over and another
\* row is left to evaluate
C9_Witness ==
    /\ lastEval.kind = "buy"
    /\ lastEval.outcome = "skipped"
    /\ lastEval.stock # ""
    /\ lastEval.live = None
    /\ pc = "buy"
    /\ i <= Len(ath_data)

\* C10: an alert for a user with both contacts attempts each channel once,
\* whatever the other channel's send did; no send raises, and the counter is
\* advanced once for the dispatch.
C10_ChannelsIndependent ==
    /\ lastEval.outcome # "raised"
    /\ (lastEval.outcome = "sent" /\ lastEval.chat_id # "" /\ lastEval.email # "") =>
           /\ lastEval.im \in {"ok", "failed"}
           /\ lastEval.mail \in {"ok", "failed"}
           /\ Get(alert_counters, EvalKey, 0) = lastEval.prev + 1
    /\ \A k \in DOMAIN sent :
           /\ sent[k].im <= Get(alert_counters, k, 0)
           /\ sent[k].mail <= Get(alert_counters, k, 0)

\* C10 witness: the IM send failed and the email was sent
C10_Witness ==
    /\ lastEval.outcome = "sent"
    /\ lastEval.im = "failed"
    /\ lastEval.mail = "ok"

\* the lookup threads started for symbol s
TasksFor(s) == {t \in 1..Len(threads) : threads[t].symbol = s}

\* every symbol of the argument has its thread, and every thread has ended
AllFinished ==
    /\ Len(threads) = Len(symbols)
    /\ \A t \in 1..Len(threads) : threads[t].st = "done"

\* C11: get_prices gets past its joins only when every lookup thread has
\* ended; the dict it returns then has an entry for exactly the requested
\* symbols, and a symbol's entry is what a lookup of that very symbol came
\* to (a price, or None), whatever the lookups of the other symbols did.
C11_CompleteAfterJoin ==
    /\ g_pc \in {"drain", "return"} => AllFinished
    /\ g_pc = "return" =>
           /\ DOMAIN result = Range(symbols)
           /\ \A s \in Range(symbols) :
                  result[s] \in {threads[t].last_price : t \in TasksFor(s)}
           /\ pc = "buy" => prices = result
           /\ pc = "sell" => ah_prices = result

\* C11 witness: of two symbols, the lookup of the one started first failed
\* and its entry is None; the other symbol has the price its lookup returned
C11_Witness ==
    /\ g_pc = "return"
    /\ Len(symbols) = 2
    /\ symbols[1] # symbols[2]
    /\ threads[1].last_price = None
    /\ result[symbols[1]] = None
    /\ result[symbols[2]] = threads[2].last_price
    /\ result[symbols[2]] # None

\* C12: a process sends at most 5 notifications per channel for one sell
\* AlertKey (user, stock, reasonText), over all its cycles and days: the key
\* carries no date, so there is one counter per (user, stock, reasonText),
\* and an evaluation that finds it at 5 sends nothing.  Nothing durable
\* records the cap: a signal found with the counter below 5 is dispatched,
\* also for a key that an earlier process took to 5.
C12_SellCapPerProcess ==
    /\ \A key \in DOMAIN sent :
           key[1] = "sell" =>
               /\ sent[key].im <= MAX_ALERTS_PER_TRIGGER
               /\ sent[key].mail <= MAX_ALERTS_PER_TRIGGER
    /\ \A key \in DOMAIN alert_counters :
           key[1] = "sell" =>
               /\ alert_counters[key] <= MAX_ALERTS_PER_TRIGGER
               /\ \A other \in DOMAIN alert_counters :
                      (other[1] = "sell" /\ other[2] = key[2]
                       /\ other[3] = key[3] /\ other[4] = key[4]) => other = key
    /\ (Evaluated("sell") /\ lastEval.prev >= MAX_ALERTS_PER_TRIGGER) =>
           /\ NothingSent
           /\ lastEval.ordinal = 0
           /\ Get(alert_counters, EvalKey, 0) = lastEval.prev
    /\ (Evaluated("sell") /\ lastEval.outcome \in {"sent", "capped"}) =>
           (lastEval.outcome = "sent" <=> lastEval.prev < MAX_ALERTS_PER_TRIGGER)

\* C12 witness: on a later day, a restarted process sends its 5th
\* notification for a sell key that the process before it took to the cap
C12_Witness ==
    /\ Evaluated("sell")
    /\ EvalKey \in spent
    /\ lastEval.outcome = "sent"
    /\ lastEval.count = MAX_ALERTS_PER_TRIGGER
    /\ now > 1

\* C13 (as claimed): a buy evaluation appends a row to the Alert_Log only
\* with its key's counter at 5; an evaluation that takes the counter to 1..4
\* sends and appends nothing; and the first row for a (user, stock,
\* yearMonth) is appended by the evaluation that dispatches the 5th
\* notification.
C13_FirstAppendWithFifthSend ==
    Evaluated("buy") =>
        /\ lastEval.appended => lastEval.count = MAX_ALERTS_PER_TRIGGER
        /\ (lastEval.outcome = "sent"
            /\ lastEval.count < MAX_ALERTS_PER_TRIGGER) => ~lastEval.appended
        /\ (lastEval.appended /\ ~lastEval.inLog) =>
               /\ lastEval.outcome = "sent"
               /\ lastEval.ordinal = MAX_ALERTS_PER_TRIGGER

\* C14: the sell phase leaves the Alert_Log and the cycle's snapshot of it
\* alone, and a row of the log never stands in the way of a sell alert: with
\* a signal and the counter below 5 the alert is dispatched, row or no row.
SellPhaseKeepsLog ==
    pc \in {"sellFetch", "sell"} =>
        /\ alert_log_sheet' = alert_log_sheet
        /\ alert_log_data' = alert_log_data

C14_SellIgnoresLog ==
    /\ [][SellPhaseKeepsLog]_vars
    /\ [](Evaluated("sell") =>
              /\ lastEval.outcome # "suppressed"
              /\ ~lastEval.appended
              /\ (lastEval.reason # << >>
                  /\ lastEval.prev < MAX_ALERTS_PER_TRIGGER) =>
                     lastEval.outcome = "sent")

\* C14 witness: a sell alert is sent for a (user, stock) whose buy alerts
\* are suppressed this month by a row of the Alert_Log
C14_Witness ==
    /\ Evaluated("sell")
    /\ lastEval.inLog
    /\ buy_alert_sent_this_month(alert_log_data, lastEval.user, lastEval.stock,
                                 YearMonth(now))
    /\ lastEval.outcome = "sent"

\* what a step of one process does to alert_counters
CountersStep ==
    restarts' = restarts =>
        /\ \A key \in DOMAIN alert_counters :
               /\ key \in DOMAIN alert_counters'
               /\ alert_counters'[key] \in {alert_counters[key],
                                            alert_counters[key] + 1}
        /\ \A key \in DOMAIN alert_counters' \ DOMAIN alert_counters :
               /\ alert_counters'[key] = 1
               /\ lastEval'.outcome = "sent"
               /\ key = EvalKey'

\* C15: in every state of a process each entry of alert_counters is an
\* integer from 1 to 5; a step of the process leaves an entry as it is or
\* adds 1 to it, never lowers or removes it, and a new entry is made (at 1)
\* only by an evaluation that triggered and dispatched for that key.
C15_CountersGrowByOne ==
    /\ [](\A key \in DOMAIN alert_counters :
              alert_counters[key] \in 1..MAX_ALERTS_PER_TRIGGER)
    /\ [][CountersStep]_vars

\* C15 witness: two keys have entries, one at the cap and one below it,
\* and the evaluation just made left the one at the cap as it was
C15_Witness ==
    /\ lastEval.outcome = "capped"
    /\ alert_counters[EvalKey] = MAX_ALERTS_PER_TRIGGER
    /\ \E key \in DOMAIN alert_counters :
           alert_counters[key] < MAX_ALERTS_PER_TRIGGER

\* the buy keys of (user, stock) that were counted on an earlier day of the
\* month of `now`
EarlierKeys(user, stock) ==
    {key \in DOMAIN alert_counters :
        /\ key[1] = "buy" /\ key[2] = user /\ key[3] = stock
        /\ key[5] < now
        /\ YearMonth(key[5]) = YearMonth(now)}

\* C16 (as claimed): the buy key carries the day, so what was counted on an
\* earlier day is not counted today (a key's first dispatch of the day finds
\* the counter at 0); and once a key of (user, stock) reached 5 on a day,
\* no buy notification for (user, stock) is dispatched on a later day of
\* that month.
C16_CapSuppressesRestOfMonth ==
    Evaluated("buy") =>
        /\ EvalKey[5] = now
        /\ \A key \in DOMAIN alert_counters : key[1] = "buy" => key[5] <= now
        /\ (\E key \in EarlierKeys(lastEval.user, lastEval.stock) :
                alert_counters[key] = MAX_ALERTS_PER_TRIGGER) =>
               /\ lastEval.outcome # "sent"
               /\ NothingSent

\* a step that dispatches a notification carries the ordinal one above the
\* counter it found, and leaves the counter at that ordinal
OrdinalStep ==
    (lastEval' # lastEval /\ lastEval'.outcome = "sent") =>
        /\ lastEval'.ordinal = Get(alert_counters, EvalKey', 0) + 1
        /\ lastEval'.ordinal \in 1..MAX_ALERTS_PER_TRIGGER
        /\ alert_counters' = Put(alert_counters, EvalKey', lastEval'.ordinal)

\* C17: the ordinal a notification carries is the key's counter before the
\* send plus one, and the counter after the send is that ordinal.  So the
\* notifications a process dispatches for one key carry 1, 2, ..., n in
\* this order, n <= 5, none skipped and none repeated.
C17_OrdinalsInOrder ==
    /\ [][OrdinalStep]_vars
    /\ [](lastEval.outcome = "sent" =>
              /\ lastEval.ordinal = lastEval.prev + 1
              /\ lastEval.count = lastEval.ordinal
              /\ Get(alert_counters, EvalKey, 0) = lastEval.ordinal)
    /\ [](lastEval.outcome # "sent" => lastEval.ordinal = 0)

\* C17 witness: the third notification for a sell key has just been sent,
\* carrying the ordinal 3
C17_Witness ==
    /\ lastEval.kind = "sell"
    /\ lastEval.outcome = "sent"
    /\ lastEval.prev = 2
    /\ lastEval.ordinal = 3
    /\ alert_counters[EvalKey] = 3

\* the last evaluation delivered nothing: each channel was not tried (no
\* contact) or failed
NothingDelivered == lastEval.im # "ok" /\ lastEval.mail # "ok"

\* C18: a user with no IM handle and no email is evaluated like any other:
\* a triggered buy evaluation with the counter below 5 dispatches (nothing
\* goes out on either channel) and the counter goes up by one; the
\* evaluation that takes it to 5 makes the append to the Alert_Log (the row
\* is written unless the append itself raises).  The counter goes up by one
\* as well when both sends fail: it counts dispatches, not deliveries.
C18_CountsAttemptsNotDeliveries ==
    /\ (Evaluated("buy") /\ lastEval.chat_id = "" /\ lastEval.email = ""
        /\ lastEval.outcome # "suppressed"
        /\ lastEval.prev < MAX_ALERTS_PER_TRIGGER
        /\ lastEval.live > lastEval.ref) =>
           /\ lastEval.outcome = "sent"
           /\ NothingSent
           /\ Get(alert_counters, EvalKey, 0) = lastEval.prev + 1
           /\ Get(alert_counters, EvalKey, 0) = MAX_ALERTS_PER_TRIGGER =>
                  \/ /\ lastEval.appended
                     /\ LogCount(alert_log_sheet, lastEval.user, lastEval.stock,
                                 YearMonth(now)) > 0
                  \/ ~lastEval.appended /\ raisedIn = "buy"
    /\ (lastEval.outcome = "sent" /\ NothingDelivered) =>
           /\ Get(alert_counters, EvalKey, 0) = lastEval.prev + 1
           /\ lastEval.ordinal = lastEval.prev + 1

\* C18 witness: the 5th triggered evaluation for a user without contacts:
\* nothing went out, the counter is 5 and the user's row is in the Alert_Log
C18_Witness ==
    /\ Evaluated("buy")
    /\ lastEval.chat_id = ""
    /\ lastEval.email = ""
    /\ NothingSent
    /\ lastEval.outcome = "sent"
    /\ alert_counters[EvalKey] = MAX_ALERTS_PER_TRIGGER
    /\ lastEval.appended
    /\ LogCount(alert_log_sheet, lastEval.user, lastEval.stock, YearMonth(now)) = 1

\* the dict get_prices returns when the threads finish in the order they
\* were started: for each symbol, what the last of its lookups came to
ResultInListOrder ==
    [s \in Range(symbols) |->
        LET last == CHOOSE t \in TasksFor(s) : \A u \in TasksFor(s) : u <= t
        IN  threads[last].last_price]

\* C19 (as claimed): with the same outcome of every lookup, get_prices
\* returns the same dict whatever the order in which the threads finish;
\* so it returns the dict that finishing in list order gives.
C19_ResultIndependentOfOrder ==
    g_pc = "return" => result = ResultInListOrder

\* the caller of get_prices is at its rows
EvaluationBegun == g_pc = "return" /\ pc \in {"buy", "sell"}

\* C20: with a fair scheduler and lookups that each return or raise, a call
\* of get_prices returns and the caller starts on its rows; and the caller
\* is never at its rows while a lookup thread of the call has not ended.
C20_FetchReturnsAfterLookups ==
    /\ (g_pc = "spawn") ~> EvaluationBegun
    /\ [](g_pc # "return" => pc \in {"buyFetch", "sellFetch"})
    /\ [](pc \in {"buy", "sell"} => AllFinished)

\* C20 witness: the sell phase starts on its rows after three lookups, two
\* of them of the same symbol, all ended
C20_Witness ==
    /\ EvaluationBegun
    /\ pc = "sell"
    /\ Len(threads) = 3
    /\ AllFinished
    /\ ah_prices = result

====
